---- MODULE Spec2Model ----
(***************************************************************************)
(* A model of string_utils_py (src/string_utils_py/__init__.py).           *)
(*                                                                         *)
(* A Python str is a sequence of one-character strings.  Python indices    *)
(* are 0-based and slices half-open: s[i] is s[i+1] here, s[:k] is         *)
(* Head_(s, k) and s[k:] is Tail_(s, k).                                   *)
(*                                                                         *)
(* Every function of the library is pure; each gets a specification whose  *)
(* Init draws the arguments from bounded sets and whose actions run it:    *)
(*   SpecExpand  expand_var, one action per way round its while loop       *)
(*   SpecAlign   text_align_delimiter                                      *)
(*   SpecNgrams  extract_ngrams                                            *)
(*   SpecCase    to_snake_case, to_pascal_case, to_camel_case              *)
(***************************************************************************)
EXTENDS Integers, Sequences, FiniteSets

VARIABLES
    \* expand_var: its parameters, its locals, and where the call stands
    string, expand_map, var_char, end_var_char, case_sensitive,
    exception_on_unexpanded, search_start_offset,
    ev_pc,        \* "idle" | "loop" | "returned" | "raised"
    ev_input,     \* the string the call was given (string is rebound in the loop)
    ev_result,    \* Just(the returned str), Nothing until the call returns
    ev_error,     \* Just(the variable name the KeyError names), else Nothing
    \* text_align_delimiter
    text, delimiter, put_non_match_after_delimiter,
    tad_pc,       \* "idle" | "call" | "returned" | "raised"
    tad_result,
    \* extract_ngrams
    ng_text, ngram_len,
    ng_pc,        \* "idle" | "call" | "returned"
    ng_result,
    \* the case converters
    cs_string,    \* the string the first call is given
    cs_fn,        \* "idle" | "snake" | "pascal" | "camel": the converter called
    cs_calls,     \* how many times it has been applied, each time to its last result
    cs_arg,       \* the argument of the latest call
    cs_out        \* the latest result, each character tagged with the index
                  \* in cs_arg of the character it comes from (0: inserted)

evVars == <<string, expand_map, var_char, end_var_char, case_sensitive,
            exception_on_unexpanded, search_start_offset, ev_pc, ev_input,
            ev_result, ev_error>>
tadVars == <<text, delimiter, put_non_match_after_delimiter, tad_pc, tad_result>>
ngVars == <<ng_text, ngram_len, ng_pc, ng_result>>
csVars == <<cs_string, cs_fn, cs_calls, cs_arg, cs_out>>
vars == <<evVars, tadVars, ngVars, csVars>>

(***************************************************************************)
(* Bounds of the model                                                     *)
(***************************************************************************)
MaxExpandLen == 5
MaxTextLen == 6
MaxNgramTextLen == 5
MaxNgramLen == 3
MaxCaseLen == 5
MaxCalls == 2

(***************************************************************************)
(* Python's str, None and the built-ins the library calls                  *)
(***************************************************************************)
\* An optional value: Nothing, or Just(v)
Nothing == <<>>

Just(v) == <<v>>

StringsOver(chars, maxLen) == UNION {[1..n -> chars] : n \in 0..maxLen}

Head_(s, k) == SubSeq(s, 1, k)

Tail_(s, k) == SubSeq(s, k + 1, Len(s))

Slice(s, i, j) == SubSeq(s, i + 1, j)

Repeat(c, n) == [i \in 1..(IF n > 0 THEN n ELSE 0) |-> c]

AsciiUpper == <<"A", "B", "C", "D", "E", "F", "G", "H", "I", "J", "K", "L", "M",
                "N", "O", "P", "Q", "R", "S", "T", "U", "V", "W", "X", "Y", "Z">>

AsciiLower == <<"a", "b", "c", "d", "e", "f", "g", "h", "i", "j", "k", "l", "m",
                "n", "o", "p", "q", "r", "s", "t", "u", "v", "w", "x", "y", "z">>

DigitChars == <<"0", "1", "2", "3", "4", "5", "6", "7", "8", "9">>

Range(f) == {f[i] : i \in DOMAIN f}

IsUpperAZ(c) == c \in Range(AsciiUpper)

IsLowerAZ(c) == c \in Range(AsciiLower)

IsLetterAZ(c) == IsUpperAZ(c) \/ IsLowerAZ(c)

\* \w of the re module, on the characters of the model
IsWordChar(c) == IsLetterAZ(c) \/ c \in Range(DigitChars) \/ c = "_"

LowerChar(c) ==
    IF IsUpperAZ(c) THEN AsciiLower[CHOOSE i \in DOMAIN AsciiUpper : AsciiUpper[i] = c]
    ELSE c

UpperChar(c) ==
    IF IsLowerAZ(c) THEN AsciiUpper[CHOOSE i \in DOMAIN AsciiLower : AsciiLower[i] = c]
    ELSE c

\* str.lower()
LowerStr(s) == [i \in 1..Len(s) |-> LowerChar(s[i])]

\* str.find(sub): the lowest index where sub starts, -1 when there is none
Find(s, sub) ==
    LET hits == {i \in 0..(Len(s) - Len(sub)) : Slice(s, i, i + Len(sub)) = sub}
    IN  IF hits = {} THEN -1 ELSE CHOOSE i \in hits : \A j \in hits : i <= j

RECURSIVE NatDigits(_)
NatDigits(n) ==
    IF n < 10 THEN <<DigitChars[n + 1]>>
    ELSE NatDigits(n \div 10) \o <<DigitChars[(n % 10) + 1]>>

\* str(value) of a map value: a str is itself, an int its decimal digits
Str(v) ==
    IF "int" \in DOMAIN v
    THEN (IF v.int < 0 THEN <<"-">> \o NatDigits(-v.int) ELSE NatDigits(v.int))
    ELSE v.str

(***************************************************************************)
(* expand_var                                                              *)
(***************************************************************************)
\* end_var_char=None; '' (the default) stands for "unspecified"
None == "None"

\* The characters of the strings expand_var is run on: the variable
\* character, a lower- and an upper-case word character, and a character
\* that is neither (it is also the explicit end_var_char).
ExpandChars == {"%", "a", "A", ";"}

NameLowerA == <<"a">>

NameUpperA == <<"A">>

\* The maps expand_var is run with: empty; an empty value; a value that is a
\* reference to its own name; a value that refers to another mapped name,
\* whose value is an int.
ExpandMaps ==
    { [n \in {} |-> [str |-> <<>>]],
      [n \in {NameLowerA} |-> [str |-> <<>>]],
      [n \in {NameLowerA} |-> [str |-> <<"%", "a", "%">>]],
      [n \in {NameLowerA, NameUpperA} |->
          IF n = NameLowerA THEN [str |-> <<"%", "A", "%">>] ELSE [int |-> 7]] }

\* \b at Python position e of s: exactly one of s[e-1], s[e] is a word character
WordBoundary(s, e) ==
    LET left == e >= 1 /\ IsWordChar(s[e])
        right == e < Len(s) /\ IsWordChar(s[e + 1])
    IN  left # right

\* `end_var_char or var_char`
CloseChar(vc, evc) == IF evc = "" THEN vc ELSE evc

\* var_pattern tried at Python index i of s: the end of the match, -1 when
\* the pattern does not match there.
\*   end_var_char None:  vc (?P<variable_name>.+?) \b      lazy, '.' is not \n
\*   otherwise:          vc (?P<variable_name>[^c]+) c     c = CloseChar
\* var_char and end_var_char are single characters that are not special in a
\* bracket expression.
MatchEnd(s, i, vc, evc) ==
    IF i >= Len(s) \/ s[i + 1] # vc THEN -1
    ELSE IF evc = None
    THEN LET ends == {e \in (i + 2)..Len(s) :
                         /\ \A k \in (i + 1)..(e - 1) : s[k + 1] # "\n"
                         /\ WordBoundary(s, e)}
         IN  IF ends = {} THEN -1 ELSE CHOOSE e \in ends : \A f \in ends : e <= f
    ELSE LET closes == {j \in (i + 1)..(Len(s) - 1) : s[j + 1] = CloseChar(vc, evc)}
             j == CHOOSE c \in closes : \A d \in closes : c <= d
         IN  IF closes = {} \/ j = i + 1 THEN -1 ELSE j + 1

\* var_pattern.search(string=s, pos=pos): the leftmost match at or after pos
Search(s, pos, vc, evc) ==
    LET starts == {i \in pos..(Len(s) - 1) : MatchEnd(s, i, vc, evc) # -1}
        i == CHOOSE a \in starts : \A b \in starts : a <= b
        e == MatchEnd(s, i, vc, evc)
    IN  IF starts = {} THEN [found |-> FALSE, start |-> -1, end |-> -1, name |-> <<>>]
        ELSE [found |-> TRUE, start |-> i, end |-> e,
              name |-> Slice(s, i + 1, IF evc = None THEN e ELSE e - 1)]

\* variant: the name is looked up as written, whatever case_sensitive
LookupNameVerbatim(name, cs) == name

\* the name looked up: lower-cased unless case_sensitive
LookupName(name, cs) == IF cs THEN name ELSE LowerStr(name)

\* variant: the scan resumes where the reference began, on the inserted value
ResumeAtMatchStart(var_pos_start, expanded_head) == var_pos_start

\* search_start_offset after an expansion
ResumeAfterExpansion(var_pos_start, expanded_head) == Len(expanded_head)

\* variant: the scan resumes on the last character of the reference
ResumeOnClosingDelimiter(var_pos_start, var_pos_end) == var_pos_end - 1

\* search_start_offset after a variable that is not in the map
ResumeAfterUnexpanded(var_pos_start, var_pos_end) == var_pos_end

ev_match == Search(string, search_start_offset, var_char, end_var_char)

variable_name == LookupName(ev_match.name, case_sensitive)

InitExpand ==
    /\ ev_input \in StringsOver(ExpandChars, MaxExpandLen)
    /\ string = ev_input
    /\ expand_map \in ExpandMaps
    /\ var_char = "%"
    /\ end_var_char \in {"", None, ";"}
    /\ case_sensitive \in BOOLEAN
    /\ exception_on_unexpanded \in BOOLEAN
    /\ search_start_offset = 0
    /\ ev_pc = "loop"
    /\ ev_result = Nothing
    /\ ev_error = Nothing

\* the loop body when variable_name is in expand_map
Expand ==
    /\ ev_pc = "loop"
    /\ ev_match.found
    /\ variable_name \in DOMAIN expand_map
    /\ LET expanded_head == Head_(string, ev_match.start) \o Str(expand_map[variable_name])
       IN  /\ string' = expanded_head \o Tail_(string, ev_match.end)
           /\ search_start_offset' = ResumeAfterExpansion(ev_match.start, expanded_head)
    /\ UNCHANGED <<expand_map, var_char, end_var_char, case_sensitive,
                   exception_on_unexpanded, ev_pc, ev_input, ev_result, ev_error>>
    /\ UNCHANGED <<tadVars, ngVars, csVars>>

\* the loop body when it is not and exception_on_unexpanded: KeyError
RaiseUnexpanded ==
    /\ ev_pc = "loop"
    /\ ev_match.found
    /\ variable_name \notin DOMAIN expand_map
    /\ exception_on_unexpanded
    /\ ev_pc' = "raised"
    /\ ev_error' = Just(variable_name)
    /\ UNCHANGED <<string, expand_map, var_char, end_var_char, case_sensitive,
                   exception_on_unexpanded, search_start_offset, ev_input, ev_result>>
    /\ UNCHANGED <<tadVars, ngVars, csVars>>

\* the loop body when it is not and the reference is left in place
SkipUnexpanded ==
    /\ ev_pc = "loop"
    /\ ev_match.found
    /\ variable_name \notin DOMAIN expand_map
    /\ ~exception_on_unexpanded
    /\ search_start_offset' = ResumeAfterUnexpanded(ev_match.start, ev_match.end)
    /\ UNCHANGED <<string, expand_map, var_char, end_var_char, case_sensitive,
                   exception_on_unexpanded, ev_pc, ev_input, ev_result, ev_error>>
    /\ UNCHANGED <<tadVars, ngVars, csVars>>

\* no match from search_start_offset on: return string
ReturnExpanded ==
    /\ ev_pc = "loop"
    /\ ~ev_match.found
    /\ ev_pc' = "returned"
    /\ ev_result' = Just(string)
    /\ UNCHANGED <<string, expand_map, var_char, end_var_char, case_sensitive,
                   exception_on_unexpanded, search_start_offset, ev_input, ev_error>>
    /\ UNCHANGED <<tadVars, ngVars, csVars>>

NextExpand == Expand \/ RaiseUnexpanded \/ SkipUnexpanded \/ ReturnExpanded

(***************************************************************************)
(* text_align_delimiter                                                    *)
(***************************************************************************)
\* The characters of the texts: a letter, the two characters of the default
\* delimiter ': ', and the line break.
AlignChars == {"a", ":", " ", "\n"}

\* The delimiters: the default ': ', one that begins with the padding
\* character, a single character, and the empty string.
AlignDelimiters == {<<":", " ">>, <<" ">>, <<":">>, <<>>}

\* str.splitlines() of a text whose only line boundary is \n: the text split
\* after each \n, with no empty last line
RECURSIVE SplitLines(_)
SplitLines(s) ==
    IF s = <<>> THEN <<>>
    ELSE LET k == Find(s, <<"\n">>)
         IN  IF k = -1 THEN <<s>>
             ELSE <<Head_(s, k)>> \o SplitLines(Tail_(s, k + 1))

\* '\n'.join(lines)
RECURSIVE JoinLines(_)
JoinLines(lines) ==
    IF lines = <<>> THEN <<>>
    ELSE IF Len(lines) = 1 THEN lines[1]
    ELSE lines[1] \o <<"\n">> \o JoinLines(Tail(lines))

\* variant: str.ljust(width), the padding after the text
ljust(s, width) == s \o Repeat(" ", width - Len(s))

\* str.rjust(width)
rjust(s, width) == Repeat(" ", width - Len(s)) \o s

MaxOf(S) == CHOOSE x \in S : \A y \in S : y <= x

\* max(line.find(delimiter) for line in text.splitlines()), given a line
max_delimiter_pos(lines, delim) ==
    MaxOf({Find(lines[i], delim) : i \in DOMAIN lines})

\* variant: the line is put at the delimiter's column, not after it
IndentToDelimiter(max_pos, delimiter_len) == max_pos

\* the number of spaces put before a line that has no delimiter
NonMatchIndent(max_pos, delimiter_len) == max_pos + delimiter_len

\* one element of the generator that is joined
AlignLine(line, max_pos, delim, put_after) ==
    LET delimiter_pos == Find(line, delim)
    IN  IF delimiter_pos # -1
        THEN rjust(Head_(line, delimiter_pos), max_pos) \o Tail_(line, delimiter_pos)
        ELSE IF line # <<>> /\ put_after
        THEN Repeat(" ", NonMatchIndent(max_pos, Len(delim))) \o line
        ELSE line

InitAlign ==
    /\ text \in StringsOver(AlignChars, MaxTextLen)
    /\ delimiter \in AlignDelimiters
    /\ put_non_match_after_delimiter \in BOOLEAN
    /\ tad_pc = "call"
    /\ tad_result = Nothing

\* max() of an empty sequence: ValueError
AlignRaise ==
    /\ tad_pc = "call"
    /\ SplitLines(text) = <<>>
    /\ tad_pc' = "raised"
    /\ UNCHANGED <<text, delimiter, put_non_match_after_delimiter, tad_result>>
    /\ UNCHANGED <<evVars, ngVars, csVars>>

AlignReturn ==
    /\ tad_pc = "call"
    /\ SplitLines(text) # <<>>
    /\ LET lines == SplitLines(text)
           max_pos == max_delimiter_pos(lines, delimiter)
       IN  tad_result' = Just(JoinLines(
               [i \in DOMAIN lines |->
                   AlignLine(lines[i], max_pos, delimiter, put_non_match_after_delimiter)]))
    /\ tad_pc' = "returned"
    /\ UNCHANGED <<text, delimiter, put_non_match_after_delimiter>>
    /\ UNCHANGED <<evVars, ngVars, csVars>>

NextAlign == AlignRaise \/ AlignReturn

(***************************************************************************)
(* extract_ngrams                                                          *)
(***************************************************************************)
NgramChars == {"a", "b", "\n"}

\* variant: '.' without re.DOTALL
DotExceptNewline(c) == c # "\n"

\* '.' under re.DOTALL matches every character
DotMatches(c) == TRUE

\* re_pattern.findall(t), from Python index p on, for the pattern of n dots:
\* the non-overlapping matches left to right; after an empty match the scan
\* moves on by one character
RECURSIVE FindAllFrom(_, _, _)
FindAllFrom(t, p, n) ==
    IF p + n > Len(t) THEN <<>>
    ELSE IF \A k \in (p + 1)..(p + n) : DotMatches(t[k])
    THEN <<Slice(t, p, p + n)>> \o FindAllFrom(t, p + (IF n = 0 THEN 1 ELSE n), n)
    ELSE FindAllFrom(t, p + 1, n)

\* the generator, from text_offset on: for text_offset in range(ngram_len)
RECURSIVE NgramsFromOffset(_, _, _)
NgramsFromOffset(t, n, text_offset) ==
    IF text_offset >= n THEN <<>>
    ELSE FindAllFrom(Tail_(t, text_offset), 0, n) \o NgramsFromOffset(t, n, text_offset + 1)

extract_ngrams(t, n) == NgramsFromOffset(t, n, 0)

InitNgrams ==
    /\ ng_text \in StringsOver(NgramChars, MaxNgramTextLen)
    /\ ngram_len \in 0..MaxNgramLen
    /\ ng_pc = "call"
    /\ ng_result = Nothing

ExtractNgrams ==
    /\ ng_pc = "call"
    /\ ng_result' = Just(extract_ngrams(ng_text, ngram_len))
    /\ ng_pc' = "returned"
    /\ UNCHANGED <<ng_text, ngram_len>>
    /\ UNCHANGED <<evVars, tadVars, csVars>>

NextNgrams == ExtractNgrams

(***************************************************************************)
(* to_snake_case, to_pascal_case, to_camel_case                            *)
(*                                                                         *)
(* The converters are run on tagged strings: each character carries the    *)
(* index it has in the argument, which every step below keeps, and an      *)
(* inserted character carries 0.  Plain(t) is the str.                     *)
(***************************************************************************)
CaseChars == {"a", "A", "1", "-", "_"}

Tagged(s) == [i \in 1..Len(s) |-> [ch |-> s[i], src |-> i]]

Plain(t) == [i \in 1..Len(t) |-> t[i].ch]

\* re_sub(r'^.', capitalize, string): '.' does not match a line break
uppercase_first_character(t) ==
    IF t = <<>> \/ t[1].ch = "\n" THEN t
    ELSE <<[t[1] EXCEPT !.ch = UpperChar(@)]>> \o Tail(t)

\* re_sub(r'^.', lower, string)
lowercase_first_character(t) ==
    IF t = <<>> \/ t[1].ch = "\n" THEN t
    ELSE <<[t[1] EXCEPT !.ch = LowerChar(@)]>> \o Tail(t)

\* str.replace(c, '')
RemoveChar(t, c) == SelectSeq(t, LAMBDA x : x.ch # c)

\* str.replace(c, d)
ReplaceChar(t, c, d) ==
    [i \in 1..Len(t) |-> IF t[i].ch = c THEN [t[i] EXCEPT !.ch = d] ELSE t[i]]

\* _CAMEL_CASED_LETTER_PATTERN matches the character at index i (from 1) of t:
\*   (?<=.)((?<=[a-z])[A-Z]|[A-Z](?=[a-z]))
CamelCasedLetter(t, i) ==
    /\ i >= 2
    /\ t[i - 1].ch # "\n"
    /\ IsUpperAZ(t[i].ch)
    /\ \/ IsLowerAZ(t[i - 1].ch)
       \/ i < Len(t) /\ IsLowerAZ(t[i + 1].ch)

\* _CAMEL_CASED_LETTER_PATTERN.sub(lambda match: f'_{match.group(0)}', t), from index i on
RECURSIVE CamelSubFrom(_, _)
CamelSubFrom(t, i) ==
    IF i > Len(t) THEN <<>>
    ELSE (IF CamelCasedLetter(t, i) THEN <<[ch |-> "_", src |-> 0]>> ELSE <<>>)
         \o <<t[i]>> \o CamelSubFrom(t, i + 1)

\* variant: without the final .lower()
to_snake_case_not_lowered(t) ==
    ReplaceChar(CamelSubFrom(RemoveChar(t, "-"), 1), "-", "_")

to_snake_case(t) ==
    LET inserted == ReplaceChar(CamelSubFrom(RemoveChar(t, "-"), 1), "-", "_")
    IN  [i \in 1..Len(inserted) |-> [inserted[i] EXCEPT !.ch = LowerChar(@)]]

\* variant: [_] for [-_]
IsUnderscoreOnly(c) == c = "_"

\* [-_] of _SNAKE_KEBAB_CASED_LETTER_PATTERN
IsSnakeKebabDelimiter(c) == c \in {"-", "_"}

\* _SNAKE_KEBAB_CASED_LETTER_PATTERN.sub(lambda match: match.group(1).upper(), t),
\* from index i on: [-_]([A-Za-z]) is replaced by the letter, upper-cased
RECURSIVE SnakeKebabSubFrom(_, _)
SnakeKebabSubFrom(t, i) ==
    IF i > Len(t) THEN <<>>
    ELSE IF IsSnakeKebabDelimiter(t[i].ch) /\ i < Len(t) /\ IsLetterAZ(t[i + 1].ch)
    THEN <<[t[i + 1] EXCEPT !.ch = UpperChar(@)]>> \o SnakeKebabSubFrom(t, i + 2)
    ELSE <<t[i]>> \o SnakeKebabSubFrom(t, i + 1)

to_pascal_case(t) == uppercase_first_character(SnakeKebabSubFrom(t, 1))

to_camel_case(t) == lowercase_first_character(SnakeKebabSubFrom(t, 1))

InitCase ==
    /\ cs_string \in StringsOver(CaseChars, MaxCaseLen)
    /\ cs_fn \in {"snake", "pascal", "camel"}
    /\ cs_calls = 0
    /\ cs_arg = <<>>
    /\ cs_out = <<>>

\* the argument of the next call: the string given, then the last result
NextArg == IF cs_calls = 0 THEN cs_string ELSE Plain(cs_out)

ToSnakeCase ==
    /\ cs_fn = "snake"
    /\ cs_calls < MaxCalls
    /\ cs_arg' = NextArg
    /\ cs_out' = to_snake_case(Tagged(NextArg))
    /\ cs_calls' = cs_calls + 1
    /\ UNCHANGED <<cs_string, cs_fn>>
    /\ UNCHANGED <<evVars, tadVars, ngVars>>

ToPascalCase ==
    /\ cs_fn = "pascal"
    /\ cs_calls < MaxCalls
    /\ cs_arg' = NextArg
    /\ cs_out' = to_pascal_case(Tagged(NextArg))
    /\ cs_calls' = cs_calls + 1
    /\ UNCHANGED <<cs_string, cs_fn>>
    /\ UNCHANGED <<evVars, tadVars, ngVars>>

ToCamelCase ==
    /\ cs_fn = "camel"
    /\ cs_calls < MaxCalls
    /\ cs_arg' = NextArg
    /\ cs_out' = to_camel_case(Tagged(NextArg))
    /\ cs_calls' = cs_calls + 1
    /\ UNCHANGED <<cs_string, cs_fn>>
    /\ UNCHANGED <<evVars, tadVars, ngVars>>

NextCase == ToSnakeCase \/ ToPascalCase \/ ToCamelCase

(***************************************************************************)
(* A specification runs one function; the others' variables stay idle.     *)
(***************************************************************************)
ExpandIdle ==
    /\ string = <<>> /\ ev_input = <<>> /\ expand_map = <<>>
    /\ var_char = "%" /\ end_var_char = ""
    /\ case_sensitive = TRUE /\ exception_on_unexpanded = FALSE
    /\ search_start_offset = 0
    /\ ev_pc = "idle" /\ ev_result = Nothing /\ ev_error = Nothing

AlignIdle ==
    /\ text = <<>> /\ delimiter = <<>> /\ put_non_match_after_delimiter = TRUE
    /\ tad_pc = "idle" /\ tad_result = Nothing

NgramsIdle ==
    /\ ng_text = <<>> /\ ngram_len = 0 /\ ng_pc = "idle" /\ ng_result = Nothing

CaseIdle ==
    /\ cs_string = <<>> /\ cs_fn = "idle" /\ cs_calls = 0
    /\ cs_arg = <<>> /\ cs_out = <<>>

InitExpandCall == InitExpand /\ AlignIdle /\ NgramsIdle /\ CaseIdle

SpecExpand == InitExpandCall /\ [][NextExpand]_vars

InitAlignCall == ExpandIdle /\ InitAlign /\ NgramsIdle /\ CaseIdle

SpecAlign == InitAlignCall /\ [][NextAlign]_vars

InitNgramsCall == ExpandIdle /\ AlignIdle /\ InitNgrams /\ CaseIdle

SpecNgrams == InitNgramsCall /\ [][NextNgrams]_vars

InitCaseCall == ExpandIdle /\ AlignIdle /\ NgramsIdle /\ InitCase

SpecCase == InitCaseCall /\ [][NextCase]_vars

(***************************************************************************)
(* expand_var: properties                                                  *)
(***************************************************************************)
\* The name a reference is looked up under
Adjusted(name) == IF case_sensitive THEN name ELSE LowerStr(name)

\* One pass over the string the call was given, which is never changed: the
\* text before each reference and then the reference's value (or, for a
\* name that is not mapped, the reference itself) are appended to acc, and
\* the cursor moves to the end of the reference.  Nothing appended is read.
RECURSIVE SinglePass(_, _, _)
SinglePass(src, cursor, acc) ==
    LET m == Search(src, cursor, var_char, end_var_char)
    IN  IF ~m.found THEN acc \o Tail_(src, cursor)
        ELSE IF Adjusted(m.name) \in DOMAIN expand_map
        THEN SinglePass(src, m.end,
                        acc \o Slice(src, cursor, m.start) \o Str(expand_map[Adjusted(m.name)]))
        ELSE SinglePass(src, m.end, acc \o Slice(src, cursor, m.end))

\* The names of the references a left-to-right scan of src meets from cursor on
RECURSIVE ScannedNames(_, _)
ScannedNames(src, cursor) ==
    LET m == Search(src, cursor, var_char, end_var_char)
    IN  IF ~m.found THEN <<>> ELSE <<Adjusted(m.name)>> \o ScannedNames(src, m.end)

UnmappedAt == {k \in DOMAIN ScannedNames(ev_input, 0) :
                  ScannedNames(ev_input, 0)[k] \notin DOMAIN expand_map}

\* C1: expand_var never re-expands inserted text: the string it returns is
\* the one a single left-to-right pass over the input builds, in which every
\* mapped reference of the input is replaced by its value and no value is
\* scanned, whatever references the value holds.
C1_NoReexpansion ==
    ev_pc = "returned" => ev_result = Just(SinglePass(ev_input, 0, <<>>))

\* C1 witness: "%a%" expanded with a |-> "%A%" and A |-> 7 returns "%A%".
C1_Witness ==
    /\ ev_pc = "returned"
    /\ ev_input = <<"%", "a", "%">>
    /\ case_sensitive /\ end_var_char = ""
    /\ NameUpperA \in DOMAIN expand_map
    /\ Str(expand_map[NameLowerA]) = <<"%", "A", "%">>
    /\ ev_result = Just(<<"%", "A", "%">>)

\* C2 as claimed: every iteration of the loop strictly advances
\* search_start_offset or ends the scan.
C2_OffsetStrictlyAdvances ==
    [][ev_pc = "loop" =>
          (search_start_offset' > search_start_offset \/ ev_pc' # "loop")]_vars

\* C2 amended: every iteration that does not end the scan strictly decreases
\* len(string) - search_start_offset, which is never negative; the offset
\* never moves back, and where it stays the string has become shorter.
C2_RemainderStrictlyDecreases ==
    [][ev_pc = "loop" /\ ev_pc' = "loop" =>
          /\ search_start_offset' <= Len(string')
          /\ Len(string') - search_start_offset' < Len(string) - search_start_offset
          /\ search_start_offset' >= search_start_offset
          /\ (search_start_offset' = search_start_offset => Len(string') < Len(string))]_vars

\* C2 witness: a reference at the resume offset was replaced by the empty
\* string: the loop goes on from the same offset in a shorter string.
C2_Witness ==
    /\ ev_pc = "loop"
    /\ search_start_offset = 0
    /\ Len(string) < Len(ev_input)

\* C3: with exception_on_unexpanded the call raises exactly when the scan
\* meets a reference whose name is not in the map; the KeyError names the
\* first such name and nothing is returned.  Without the flag it never raises.
C3_RaisesOnFirstUnmapped ==
    /\ ev_pc = "raised" =>
          /\ exception_on_unexpanded
          /\ UnmappedAt # {}
          /\ \E k \in UnmappedAt :
                /\ \A j \in UnmappedAt : k <= j
                /\ ev_error = Just(ScannedNames(ev_input, 0)[k])
          /\ ev_result = Nothing
    /\ ev_pc = "returned" /\ exception_on_unexpanded => UnmappedAt = {}

\* C3 witness: the KeyError names A after an earlier reference was expanded.
C3_Witness ==
    /\ ev_pc = "raised"
    /\ ev_error = Just(NameUpperA)
    /\ string # ev_input

\* C4: without exception_on_unexpanded, a reference whose name is not in the
\* map is left as it is and the scan resumes at its end; so when none of the
\* references the scan meets is mapped (the empty map included) the call
\* returns its input.
C4_UnexpandedLeftInPlace ==
    [][/\ ( /\ ev_pc = "loop"
            /\ ev_match.found
            /\ Adjusted(ev_match.name) \notin DOMAIN expand_map
            /\ ~exception_on_unexpanded )
          => /\ string' = string
             /\ search_start_offset' = ev_match.end
             /\ ev_pc' = "loop"
       /\ ( /\ ev_pc' = "returned"
            /\ ~exception_on_unexpanded
            /\ UnmappedAt = DOMAIN ScannedNames(ev_input, 0) )
          => ev_result' = Just(ev_input)]_vars

\* C4 witness: "%A%a%" with only a mapped is returned as it is: the "%" that
\* closes %A% does not open %a%.
C4_Witness ==
    /\ ev_pc = "returned"
    /\ ev_input = <<"%", "A", "%", "a", "%">>
    /\ case_sensitive /\ end_var_char = ""
    /\ DOMAIN expand_map = {NameLowerA}
    /\ ev_result = Just(ev_input)

(***************************************************************************)
(* text_align_delimiter: properties                                        *)
(***************************************************************************)
InLines == SplitLines(text)

\* the lines of the returned text: it is split at every \n
RECURSIVE SplitAtEveryNewline(_)
SplitAtEveryNewline(s) ==
    LET k == Find(s, <<"\n">>)
    IN  IF k = -1 THEN <<s>>
        ELSE <<Head_(s, k)>> \o SplitAtEveryNewline(Tail_(s, k + 1))

OutLines == SplitAtEveryNewline(tad_result[1])

Matching == {i \in DOMAIN InLines : Find(InLines[i], delimiter) # -1}

\* max_pos: the largest first-occurrence index over the matching lines
MaxPos == MaxOf({Find(InLines[i], delimiter) : i \in Matching})

\* C5: text_align_delimiter never returns when no line of the text contains
\* the delimiter.
C5_FailsWhenNoLineMatches ==
    tad_pc = "returned" => Matching # {}

\* C6 as claimed: one output line per input line, and each matching line is
\* its input left-padded with spaces so that the FIRST occurrence of the
\* delimiter in the output line begins at column max_pos.
C6_FirstOccurrenceAtMaxPos ==
    tad_pc = "returned" /\ Matching # {} =>
        /\ Len(OutLines) = Len(InLines)
        /\ \A i \in Matching :
              /\ OutLines[i] = Repeat(" ", MaxPos - Find(InLines[i], delimiter)) \o InLines[i]
              /\ Find(OutLines[i], delimiter) = MaxPos

\* C6 amended: one output line per input line, and each matching line is its
\* input left-padded with spaces so that the occurrence of the delimiter
\* that was first in the input line begins at column max_pos; that is the
\* first occurrence in the output line when the delimiter does not begin
\* with a space.
C6_DelimiterAtMaxPos ==
    tad_pc = "returned" /\ Matching # {} =>
        /\ Len(OutLines) = Len(InLines)
        /\ \A i \in Matching :
              /\ OutLines[i] = Repeat(" ", MaxPos - Find(InLines[i], delimiter)) \o InLines[i]
              /\ Slice(OutLines[i], MaxPos, MaxPos + Len(delimiter)) = delimiter
              /\ (delimiter = <<>> \/ Head(delimiter) # " ")
                    => Find(OutLines[i], delimiter) = MaxPos

\* C6 witness: a returned text in which a line was padded to move its ': '
\* to the column of another line's.
C6_Witness ==
    /\ tad_pc = "returned"
    /\ delimiter = <<":", " ">>
    /\ \E i \in Matching :
          /\ Find(InLines[i], delimiter) < MaxPos
          /\ Find(OutLines[i], delimiter) = MaxPos

\* C7: a line without the delimiter stays empty when it is empty, is
\* returned as it is when put_non_match_after_delimiter is false, and is
\* otherwise prefixed with max_pos + len(delimiter) spaces.
C7_NonMatchingLines ==
    tad_pc = "returned" =>
        /\ Len(OutLines) = Len(InLines)
        /\ \A i \in DOMAIN InLines \ Matching :
              /\ InLines[i] = <<>> => OutLines[i] = <<>>
              /\ ~put_non_match_after_delimiter => OutLines[i] = InLines[i]
              /\ InLines[i] # <<>> /\ put_non_match_after_delimiter /\ Matching # {}
                    => OutLines[i] = Repeat(" ", MaxPos + Len(delimiter)) \o InLines[i]

\* C7 witness: a returned text with a non-empty line without the delimiter,
\* put after a delimiter that another line has at a column past 0.
C7_Witness ==
    /\ tad_pc = "returned"
    /\ put_non_match_after_delimiter
    /\ Matching # {}
    /\ MaxPos >= 1
    /\ \E i \in DOMAIN InLines \ Matching :
          /\ InLines[i] # <<>>
          /\ Len(OutLines[i]) = Len(InLines[i]) + MaxPos + Len(delimiter)

(***************************************************************************)
(* extract_ngrams: properties                                              *)
(***************************************************************************)
\* the offsets at which a window of ngram_len elements starts
WindowStarts == 0..(Len(ng_text) - ngram_len)

\* a comes before b in the result: by anchor group, then by position
BeforeInGroups(a, b) ==
    \/ a % ngram_len < b % ngram_len
    \/ a % ngram_len = b % ngram_len /\ a < b

PlaceOf(a) == Cardinality({b \in WindowStarts : BeforeInGroups(b, a)}) + 1

\* C8: for ngram_len >= 1 the result holds the window at each offset
\* 0..len(text)-ngram_len exactly once, ordered by anchor group (offset
\* modulo ngram_len) and then by offset; every element has ngram_len
\* elements; the result is empty when text is empty or shorter than ngram_len.
C8_EveryWindowOnceByAnchorGroup ==
    ng_pc = "returned" /\ ngram_len >= 1 =>
        LET ngrams == ng_result[1]
        IN  /\ Len(ngrams) = Cardinality(WindowStarts)
            /\ \A a \in WindowStarts : ngrams[PlaceOf(a)] = Slice(ng_text, a, a + ngram_len)
            /\ \A k \in DOMAIN ngrams : Len(ngrams[k]) = ngram_len
            /\ (ng_text = <<>> \/ ngram_len > Len(ng_text)) => ngrams = <<>>

\* C8 witness: the bigrams of "ab\nab" are "ab", "\na", then "b\n", "ab".
C8_Witness ==
    /\ ng_pc = "returned"
    /\ ngram_len = 2
    /\ ng_text = <<"a", "b", "\n", "a", "b">>
    /\ ng_result = Just(<< <<"a", "b">>, <<"\n", "a">>, <<"b", "\n">>, <<"a", "b">> >>)

(***************************************************************************)
(* The case converters: properties                                         *)
(***************************************************************************)
\* already snake-cased: lower-case letters, digits and underscores only
IsSnakeCased(s) ==
    \A i \in DOMAIN s : IsLowerAZ(s[i]) \/ s[i] \in Range(DigitChars) \/ s[i] = "_"

\* C9: to_snake_case applied to its own result returns it unchanged, and
\* applied to an already snake-cased string returns that string.
C9_SnakeCaseIdempotent ==
    cs_fn = "snake" /\ cs_calls >= 1 /\ (cs_calls >= 2 \/ IsSnakeCased(cs_arg))
        => Plain(cs_out) = cs_arg

\* C9 witness: to_snake_case was applied to a result of its own in which it
\* had inserted an underscore and lower-cased a letter.
C9_Witness ==
    /\ cs_fn = "snake"
    /\ cs_calls = 2
    /\ cs_string = <<"a", "A", "a">>
    /\ Plain(cs_out) = <<"a", "_", "a", "a">>

\* the hyphens and underscores of the argument that a letter follows
DelimitersBeforeLetter ==
    {i \in 1..(Len(cs_arg) - 1) : cs_arg[i] \in {"-", "_"} /\ IsLetterAZ(cs_arg[i + 1])}

\* the character at index i of the argument is a hyphen or an underscore of the result
SurvivesAsDelimiter(i) ==
    \E k \in DOMAIN cs_out : cs_out[k].src = i /\ cs_out[k].ch \in {"-", "_"}

\* C10 as claimed: for all three converters, no hyphen or underscore of the
\* input that a letter followed is in the output.
C10_NoDelimiterBeforeLetterSurvives ==
    cs_calls >= 1 => \A i \in DelimitersBeforeLetter : ~SurvivesAsDelimiter(i)

\* C10 amended: that holds of to_pascal_case and to_camel_case; to_snake_case
\* deletes every hyphen of its input and keeps every underscore.
C10_PascalCamelDropSnakeKeepsUnderscores ==
    cs_calls >= 1 =>
        /\ cs_fn \in {"pascal", "camel"}
              => \A i \in DelimitersBeforeLetter : ~SurvivesAsDelimiter(i)
        /\ cs_fn = "snake"
              => \A i \in DOMAIN cs_arg :
                    /\ cs_arg[i] = "-" => ~SurvivesAsDelimiter(i)
                    /\ cs_arg[i] = "_" => SurvivesAsDelimiter(i)

\* C10 witness: to_pascal_case dropped a hyphen and an underscore that letters followed.
C10_Witness ==
    /\ cs_fn = "pascal"
    /\ cs_calls = 1
    /\ cs_arg = <<"a", "-", "a", "_", "a">>
    /\ Plain(cs_out) = <<"A", "A", "A">>

====
